---- MODULE Spec2Model ----
(***************************************************************************)
(* aurora-snapshot-tool: the two Lambda handlers                           *)
(*   lambda/copy_snapshots_dest_aurora/lambda_function.py  (the Copier)    *)
(*   lambda/share_snapshots_aurora/lambda_function.py      (the Sharer)    *)
(* as state machines over the snapshot service they drive.                 *)
(*                                                                         *)
(* A behaviour is the life of one deployed function (lambdaFn): it is      *)
(* invoked again and again, and between its steps the service completes    *)
(* copies and time passes.  The helpers of snapshots_tool_utils            *)
(* (get_shared_snapshots, get_own_snapshots_dest, get_timestamp,           *)
(* copy_local, copy_remote, get_own_snapshots_share, search_tag_share) are *)
(* not part of the two files; they are modelled from their contracts.      *)
(* PATTERN keeps its default (match every snapshot).                       *)
(***************************************************************************)
EXTENDS Integers, FiniteSets, TLC

\* ------------------------------------------------------------------ bounds
Ids == {"s1", "s2"}               \* snapshot identifiers
Regions == {"r1", "r2"}
Invs == {1, 2}                    \* Copier invocations that may be in flight
MaxNow == 1                       \* the clock runs over the days 0..MaxNow
MaxRetention == 1                 \* RETENTION_DAYS is drawn from 0..MaxRetention

\* --------------------------------------------------------------- constants
Copier == "copy_snapshots_dest_aurora"
Sharer == "share_snapshots_aurora"
REGION == "r1"                    \* the region the function runs in
Absent == "absent"                \* no record under that identifier
NoTimestamp == -1                 \* get_timestamp found no date (None)
NameError == "NameError"
NoOp == "none"

VARIABLES
    lambdaFn,             \* which of the two functions this deployment is
    DESTINATION_REGION,   \* os.getenv('DEST_REGION')
    RETENTION_DAYS,       \* int(os.getenv('RETENTION_DAYS'))
    now,                  \* datetime.now(), in days
    shared,               \* identifiers shared into the account, in REGION
    created,              \* id -> the date its name carries, or NoTimestamp
    own,                  \* region -> id -> status of the owned snapshot
    \* one Copier invocation (indexed by Invs)
    pc,                   \* "idle" | "listed" | "loop" | "done" | "aborted"
    shared_snapshots,     \* keys of the dict of line 87
    own_snapshots,        \* line 88: id -> Status (Absent: not a key)
    own_dest_snapshots,   \* line 93
    todo,                 \* identifiers the for loop has still to visit
    pending_copies,       \* line 83
    calls,                \* mutation calls sent: <<op, id, "ok" | "fail">>
    pendingFor,           \* id -> how often it incremented pending_copies
    msgs,                 \* the log lines written: <<text, id>>
    outcome,              \* how the last finished invocation ended
    raised,               \* the count in the SnapshotToolException message
    \* the Sharer
    snapStatus,           \* id -> 'Status' of the source-account snapshot
    snapTag,              \* id -> value of its shareAndCopy tag
    restoreAttr,          \* ids whose 'restore' attribute holds DEST_ACCOUNTID
    spc,
    filtered,             \* line 43: id -> Status
    stodo,
    pending_snapshots,    \* line 40
    scalls,               \* share calls sent: <<id, "ok" | "fail">>
    spendingFor,
    tagsRead,             \* ids whose list_tags_for_resource call returned
    soutcome,
    sraised

worldVars == <<lambdaFn, DESTINATION_REGION, RETENTION_DAYS, now, shared, created, own>>
copierVars == <<pc, shared_snapshots, own_snapshots, own_dest_snapshots, todo,
                pending_copies, calls, pendingFor, msgs, outcome, raised>>
sharerWorld == <<snapStatus, snapTag, restoreAttr>>
sharerVars == <<spc, filtered, stodo, pending_snapshots, scalls, spendingFor,
                tagsRead, soutcome, sraised>>
vars == <<worldVars, copierVars, sharerWorld, sharerVars>>

Statuses == {"copying", "available"}
Keys(listing) == {id \in Ids : listing[id] # Absent}
NoListing == [id \in Ids |-> Absent]
Zero == [id \in Ids |-> 0]

\* ------------------------------------------------- the Copier's decisions

\* lines 64-80: the names lambda_handler binds to RDS clients
BoundNames == {"client", "client_dest"}

\* Python's name lookup: an unbound name raises NameError
Resolve(name) == IF name \in BoundNames THEN name ELSE NameError

\* lines 64-80: region_name of each client
ClientRegion(c) == IF c = "client" THEN REGION ELSE DESTINATION_REGION

\* line 109: dest_client if REGION != DESTINATION_REGION else client
CopyClient ==
    IF REGION # DESTINATION_REGION THEN Resolve("dest_client") ELSE Resolve("client")

\* line 97 without its test of the destination listing
IsCopyLocalCandidate_SourceOnly(id, ownL, destL) ==
    id \notin Keys(ownL)

\* line 97 without its test of the source listing
IsCopyLocalCandidate_DestOnly(id, ownL, destL) ==
    id \notin Keys(destL)

\* line 97
IsCopyLocalCandidate(id, ownL, destL) ==
    id \notin Keys(ownL) /\ id \notin Keys(destL)

\* line 133 without its test that the identifier is owned in REGION
IsCopyRemoteCandidate_NoOwnTest(id, ownL, destL) ==
    id \notin Keys(destL) /\ REGION # DESTINATION_REGION

\* line 133 without its test of the destination listing
IsCopyRemoteCandidate_NoDestTest(id, ownL, destL) ==
    id \in Keys(ownL) /\ REGION # DESTINATION_REGION

\* line 133
IsCopyRemoteCandidate(id, ownL, destL) ==
    id \notin Keys(destL) /\ id \in Keys(ownL) /\ REGION # DESTINATION_REGION

\* line 150 without its test of the destination copy's status
IsDeleteLocalCandidate_AnyStatus(id, ownL, destL) ==
    /\ id \in Keys(destL)
    /\ id \in Keys(ownL)
    /\ REGION # DESTINATION_REGION

\* line 150 without its test that the two regions differ
IsDeleteLocalCandidate_NoRegionTest(id, ownL, destL) ==
    /\ id \in Keys(destL)
    /\ id \in Keys(ownL)
    /\ destL[id] = "available"

\* line 150
IsDeleteLocalCandidate(id, ownL, destL) ==
    /\ id \in Keys(destL)
    /\ id \in Keys(ownL)
    /\ destL[id] = "available"
    /\ REGION # DESTINATION_REGION

\* lines 97, 133, 150: the if / elif / elif chain
Branch(id, ownL, destL) ==
    IF IsCopyLocalCandidate(id, ownL, destL) THEN "copy_local"
    ELSE IF IsCopyRemoteCandidate(id, ownL, destL) THEN "copy_remote"
    ELSE IF IsDeleteLocalCandidate(id, ownL, destL) THEN "delete"
    ELSE NoOp

\* lines 101-102: days between now and the creation date
DaysDifference(creation_date) == now - creation_date

\* line 105 with <= for <
WithinRetention_Inclusive(days_difference) == days_difference <= RETENTION_DAYS

\* line 105
WithinRetention(days_difference) == days_difference < RETENTION_DAYS

\* line 134 accepting every status
RemoteCopyReady_Always(status) == TRUE

\* line 134
RemoteCopyReady(status) == status = "available"

\* line 158 with > 1 for > 0
CopierOutcome_OffByOne(p) == IF p > 1 THEN "pending" ELSE "ok"

\* lines 158-161: what the end of the invocation does with the counter
CopierOutcome(p) == IF p > 0 THEN "pending" ELSE "ok"

\* get_timestamp(shared_identifier, shared_snapshots): the date in the
\* snapshot's name, None when there is none
get_timestamp(id) == created[id]

\* -------------------------------------------------- the snapshot service

\* copy_local(id, attributes, client): the service makes an owned copy of
\* a shared snapshot in the client's region unless one exists under that name
CopyLocalTakes(id, region, ok) ==
    ok /\ id \in shared /\ own[region][id] = Absent

\* copy_remote(id, attributes): the service copies an available owned
\* snapshot of REGION into DESTINATION_REGION unless one exists there
CopyRemoteTakes(id, ok) ==
    ok /\ own[REGION][id] = "available" /\ own[DESTINATION_REGION][id] = Absent

\* delete_db_cluster_snapshot: the snapshot must exist and be available
DeleteTakes(id, ok) ==
    ok /\ own[REGION][id] = "available"

\* what visiting one identifier does: the call it sends (NoOp: none), the
\* call's result, what it adds to pending_copies, the lines it logs, whether
\* an exception leaves the handler, and the service's state afterwards
Effect(call, res, pend, text, escapes, world) ==
    [call |-> call, res |-> res, pend |-> pend, text |-> text,
     escapes |-> escapes, world |-> world]

\* lines 98-130
CopyLocalBranch(id, ok) ==
    LET creation_date == get_timestamp(id) IN
    IF creation_date = NoTimestamp
    THEN Effect(NoOp, NoOp, 0, {"No valid timestamp"}, FALSE, own)
    ELSE IF ~WithinRetention(DaysDifference(creation_date))
    THEN Effect(NoOp, NoOp, 0, {"Older than"}, FALSE, own)
    ELSE IF CopyClient = NameError
    THEN Effect(NoOp, NoOp, 1, {"exception", "Local copy pending"}, FALSE, own)
    ELSE LET region == ClientRegion(CopyClient) IN
         IF CopyLocalTakes(id, region, ok)
         THEN Effect("copy_local", "ok",
                     IF REGION # DESTINATION_REGION THEN 1 ELSE 0,
                     IF REGION # DESTINATION_REGION THEN {"Remote copy pending"} ELSE {},
                     FALSE,
                     [own EXCEPT ![region][id] = "copying"])
         ELSE Effect("copy_local", "fail", 1,
                     {"exception", "Local copy pending"}, FALSE, own)

\* lines 134-147
CopyRemoteBranch(id, ownL, ok) ==
    IF RemoteCopyReady(ownL[id])
    THEN IF CopyRemoteTakes(id, ok)
         THEN Effect("copy_remote", "ok", 0, {}, FALSE,
                     [own EXCEPT ![DESTINATION_REGION][id] = "copying"])
         ELSE Effect("copy_remote", "fail", 1,
                     {"exception", "Remote copy pending"}, FALSE, own)
    ELSE Effect(NoOp, NoOp, 1, {"Remote copy pending"}, FALSE, own)

\* lines 152-156 with the delete sent to client_dest
DeleteBranch_DestClient(id, ok) ==
    IF DeleteTakes(id, ok)
    THEN Effect("delete", "ok", 0, {"Deleting local snapshot"}, FALSE,
                [own EXCEPT ![DESTINATION_REGION][id] = Absent])
    ELSE Effect("delete", "fail", 0, {}, TRUE, own)

\* lines 152-156: the delete call stands outside any try
DeleteBranch(id, ok) ==
    IF DeleteTakes(id, ok)
    THEN Effect("delete", "ok", 0, {"Deleting local snapshot"}, FALSE,
                [own EXCEPT ![REGION][id] = Absent])
    ELSE Effect("delete", "fail", 0, {}, TRUE, own)

\* lines 97-156: the body of the for loop for one identifier
Visit(id, ownL, destL, ok) ==
    LET b == Branch(id, ownL, destL) IN
    IF b = "copy_local" THEN CopyLocalBranch(id, ok)
    ELSE IF b = "copy_remote" THEN CopyRemoteBranch(id, ownL, ok)
    ELSE IF b = "delete" THEN DeleteBranch(id, ok)
    ELSE Effect(NoOp, NoOp, 0, {}, FALSE, own)

\* ---------------------------------------------------- the Copier's steps

\* lines 83-88: a new invocation; the listing of REGION, shared included
CopierListSource(i) ==
    /\ lambdaFn = Copier
    /\ pc[i] \in {"idle", "done", "aborted"}
    /\ pc' = [pc EXCEPT ![i] = "listed"]
    /\ pending_copies' = [pending_copies EXCEPT ![i] = 0]
    /\ shared_snapshots' = [shared_snapshots EXCEPT ![i] = shared]
    /\ own_snapshots' = [own_snapshots EXCEPT ![i] = own[REGION]]
    /\ own_dest_snapshots' = [own_dest_snapshots EXCEPT ![i] = NoListing]
    /\ todo' = [todo EXCEPT ![i] = shared]
    /\ calls' = [calls EXCEPT ![i] = {}]
    /\ pendingFor' = [pendingFor EXCEPT ![i] = Zero]
    /\ msgs' = [msgs EXCEPT ![i] = {}]
    /\ UNCHANGED <<outcome, raised, worldVars, sharerWorld, sharerVars>>

\* lines 91-95: the listing of DESTINATION_REGION; the loop starts
CopierListDest(i) ==
    /\ lambdaFn = Copier
    /\ pc[i] = "listed"
    /\ pc' = [pc EXCEPT ![i] = "loop"]
    /\ own_dest_snapshots' = [own_dest_snapshots EXCEPT ![i] = own[DESTINATION_REGION]]
    /\ UNCHANGED <<shared_snapshots, own_snapshots, todo, pending_copies, calls, pendingFor,
                   msgs, outcome, raised, worldVars, sharerWorld, sharerVars>>

\* lines 95-156: one turn of the for loop; ok is whether the service would
\* carry out the call this turn sends, if it sends one
CopierStep(i, id, ok) ==
    /\ lambdaFn = Copier
    /\ pc[i] = "loop"
    /\ id \in todo[i]
    /\ LET e == Visit(id, own_snapshots[i], own_dest_snapshots[i], ok) IN
       /\ own' = e.world
       /\ todo' = [todo EXCEPT ![i] = @ \ {id}]
       /\ pending_copies' = [pending_copies EXCEPT ![i] = @ + e.pend]
       /\ pendingFor' = [pendingFor EXCEPT ![i][id] = @ + e.pend]
       /\ calls' = [calls EXCEPT ![i] =
                       IF e.call = NoOp THEN @ ELSE @ \cup {<<e.call, id, e.res>>}]
       /\ msgs' = [msgs EXCEPT ![i] = @ \cup {<<t, id>> : t \in e.text}]
       /\ pc' = [pc EXCEPT ![i] = IF e.escapes THEN "aborted" ELSE @]
       /\ outcome' = [outcome EXCEPT ![i] = IF e.escapes THEN "error" ELSE @]
       /\ raised' = [raised EXCEPT ![i] = IF e.escapes THEN 0 ELSE @]
    /\ UNCHANGED <<lambdaFn, DESTINATION_REGION, RETENTION_DAYS, now, shared, created,
                   shared_snapshots, own_snapshots, own_dest_snapshots,
                   sharerWorld, sharerVars>>

\* lines 158-161: the loop is over
CopierFinish(i) ==
    /\ lambdaFn = Copier
    /\ pc[i] = "loop"
    /\ todo[i] = {}
    /\ pc' = [pc EXCEPT ![i] = "done"]
    /\ outcome' = [outcome EXCEPT ![i] = CopierOutcome(pending_copies[i])]
    /\ raised' = [raised EXCEPT ![i] =
                     IF CopierOutcome(pending_copies[i]) = "pending"
                     THEN pending_copies[i] ELSE 0]
    /\ UNCHANGED <<shared_snapshots, own_snapshots, own_dest_snapshots, todo,
                   pending_copies, calls, pendingFor, msgs,
                   worldVars, sharerWorld, sharerVars>>

\* the service finishes a copy it accepted
ServiceComplete(region, id) ==
    /\ lambdaFn = Copier
    /\ own[region][id] = "copying"
    /\ own' = [own EXCEPT ![region][id] = "available"]
    /\ UNCHANGED <<lambdaFn, DESTINATION_REGION, RETENTION_DAYS, now, shared, created,
                   copierVars, sharerWorld, sharerVars>>

\* a day passes
Tick ==
    /\ lambdaFn = Copier
    /\ now < MaxNow
    /\ now' = now + 1
    /\ UNCHANGED <<lambdaFn, DESTINATION_REGION, RETENTION_DAYS, shared, created, own,
                   copierVars, sharerWorld, sharerVars>>

\* ------------------------------------------------------------ the Sharer

SStatuses == {"creating", "copying", "available", "Available"}
TagValues == {"YES", "yes", "NO"}

\* str.lower() on the statuses the service reports
Lower(status) == IF status = "Available" THEN "available" ELSE status

\* case normalisation of a tag value
Upper(value) == IF value = "yes" THEN "YES" ELSE value

\* search_tag_share(response_tags): the shareAndCopy tag is there and its
\* value, case-normalised, is YES
search_tag_share(tag) == tag # Absent /\ Upper(tag) = "YES"

\* line 52 without .lower()
IsShareable_CaseSensitive(status) == status = "available"

\* line 52
IsShareable(status) == Lower(status) = "available"

\* line 66 as a plain else: every status but 'available' counts
IsCopying_AnyOther(status) == Lower(status) # "available"

\* line 66
IsCopying(status) == Lower(status) = "copying"

\* lines 70-73 with > 1 for > 0
SharerOutcome_OffByOne(p) == IF p > 1 THEN "pending" ELSE "ok"

\* lines 70-73
SharerOutcome(p) == IF p > 0 THEN "pending" ELSE "ok"

\* lines 51-68: what the loop does with a snapshot whose tags it has read:
\* whether it sends the share call and what it adds to pending_snapshots
ShareDecision(tag, status, ok) ==
    IF search_tag_share(tag)
    THEN IF IsShareable(status)
         THEN [call |-> TRUE, pend |-> IF ok THEN 0 ELSE 1]
         ELSE IF IsCopying(status)
         THEN [call |-> FALSE, pend |-> 1]
         ELSE [call |-> FALSE, pend |-> 0]
    ELSE [call |-> FALSE, pend |-> 0]

\* lines 40-43: a new invocation and its listing
SharerList ==
    /\ lambdaFn = Sharer
    /\ spc \in {"idle", "done", "aborted"}
    /\ spc' = "loop"
    /\ pending_snapshots' = 0
    /\ filtered' = snapStatus
    /\ stodo' = Keys(snapStatus)
    /\ scalls' = {}
    /\ spendingFor' = Zero
    /\ tagsRead' = {}
    /\ UNCHANGED <<soutcome, sraised, sharerWorld, worldVars, copierVars>>

\* lines 48-49 raise: list_tags_for_resource stands outside any try
SharerTagsFail(id) ==
    /\ lambdaFn = Sharer
    /\ spc = "loop"
    /\ id \in stodo
    /\ spc' = "aborted"
    /\ soutcome' = "error"
    /\ sraised' = 0
    /\ stodo' = stodo \ {id}
    /\ UNCHANGED <<filtered, pending_snapshots, scalls, spendingFor, tagsRead,
                   sharerWorld, worldVars, copierVars>>

\* lines 46-68: one turn of the for loop; ok is whether the service carries
\* out the share call, if the turn sends one
SharerStep(id, ok) ==
    /\ lambdaFn = Sharer
    /\ spc = "loop"
    /\ id \in stodo
    /\ LET d == ShareDecision(snapTag[id], filtered[id], ok) IN
       /\ scalls' = IF d.call
                    THEN scalls \cup {<<id, IF ok THEN "ok" ELSE "fail">>}
                    ELSE scalls
       /\ restoreAttr' = IF d.call /\ ok THEN restoreAttr \cup {id} ELSE restoreAttr
       /\ pending_snapshots' = pending_snapshots + d.pend
       /\ spendingFor' = [spendingFor EXCEPT ![id] = @ + d.pend]
    /\ tagsRead' = tagsRead \cup {id}
    /\ stodo' = stodo \ {id}
    /\ UNCHANGED <<spc, filtered, soutcome, sraised, snapStatus, snapTag,
                   worldVars, copierVars>>

\* lines 70-73
SharerFinish ==
    /\ lambdaFn = Sharer
    /\ spc = "loop"
    /\ stodo = {}
    /\ spc' = "done"
    /\ soutcome' = SharerOutcome(pending_snapshots)
    /\ sraised' = IF SharerOutcome(pending_snapshots) = "pending"
                  THEN pending_snapshots ELSE 0
    /\ UNCHANGED <<filtered, stodo, pending_snapshots, scalls, spendingFor, tagsRead,
                   sharerWorld, worldVars, copierVars>>

\* a snapshot of the source account finishes being created or copied
SnapshotCompletes(id) ==
    /\ lambdaFn = Sharer
    /\ snapStatus[id] \in {"creating", "copying"}
    /\ snapStatus' = [snapStatus EXCEPT ![id] = "available"]
    /\ UNCHANGED <<snapTag, restoreAttr, sharerVars, worldVars, copierVars>>

\* ------------------------------------------------------ the specification

CopierIdle ==
    /\ pc = [i \in Invs |-> "idle"]
    /\ shared_snapshots = [i \in Invs |-> {}]
    /\ own_snapshots = [i \in Invs |-> NoListing]
    /\ own_dest_snapshots = [i \in Invs |-> NoListing]
    /\ todo = [i \in Invs |-> {}]
    /\ pending_copies = [i \in Invs |-> 0]
    /\ calls = [i \in Invs |-> {}]
    /\ pendingFor = [i \in Invs |-> Zero]
    /\ msgs = [i \in Invs |-> {}]
    /\ outcome = [i \in Invs |-> NoOp]
    /\ raised = [i \in Invs |-> 0]

SharerIdle ==
    /\ spc = "idle"
    /\ filtered = NoListing
    /\ stodo = {}
    /\ pending_snapshots = 0
    /\ scalls = {}
    /\ spendingFor = Zero
    /\ tagsRead = {}
    /\ soutcome = NoOp
    /\ sraised = 0

\* the Copier's deployment: its configuration and the snapshots there are
InitCopier ==
    /\ lambdaFn = Copier
    /\ DESTINATION_REGION \in Regions
    /\ RETENTION_DAYS \in 0..MaxRetention
    /\ now = 0
    /\ shared \in SUBSET Ids
    /\ created \in [Ids -> {NoTimestamp} \cup (0..MaxNow)]
    /\ \A id \in Ids \ shared : created[id] = NoTimestamp
    /\ own \in [Regions -> [Ids -> {Absent} \cup Statuses]]
    /\ \A r \in Regions \ {REGION, DESTINATION_REGION} : own[r] = NoListing
    /\ snapStatus = NoListing
    /\ snapTag = NoListing
    /\ restoreAttr = {}

\* the Sharer's deployment
InitSharer ==
    /\ lambdaFn = Sharer
    /\ DESTINATION_REGION = REGION
    /\ RETENTION_DAYS = 0
    /\ now = 0
    /\ shared = {}
    /\ created = [id \in Ids |-> NoTimestamp]
    /\ own = [r \in Regions |-> NoListing]
    /\ snapStatus \in [Ids -> {Absent} \cup SStatuses]
    /\ snapTag \in [Ids -> {Absent} \cup TagValues]
    /\ \A id \in Ids : snapStatus[id] = Absent => snapTag[id] = Absent
    /\ restoreAttr = {}

Init ==
    /\ InitCopier \/ InitSharer
    /\ CopierIdle
    /\ SharerIdle

NextCopier ==
    \/ CopierListSource(1)
    \/ CopierListDest(1)
    \/ \E id \in Ids, ok \in BOOLEAN : CopierStep(1, id, ok)
    \/ CopierFinish(1)
    \/ \E r \in Regions, id \in Ids : ServiceComplete(r, id)
    \/ Tick

NextSharer ==
    \/ SharerList
    \/ \E id \in Ids : SharerTagsFail(id)
    \/ \E id \in Ids, ok \in BOOLEAN : SharerStep(id, ok)
    \/ SharerFinish
    \/ \E id \in Ids : SnapshotCompletes(id)

Next == NextCopier \/ NextSharer

Spec == Init /\ [][Next]_vars

\* the scheduler invokes the Copier again and again, the service completes
\* the copies it accepted, and a call that is sent again and again is
\* carried out in the end
FairSpec ==
    /\ Spec
    /\ WF_vars(CopierListSource(1))
    /\ WF_vars(CopierListDest(1))
    /\ WF_vars(CopierFinish(1))
    /\ \A id \in Ids : SF_vars(CopierStep(1, id, TRUE))
    /\ \A r \in Regions, id \in Ids : WF_vars(ServiceComplete(r, id))

\* two invocations of the Copier that overlap: nothing keeps the scheduler
\* from starting the handler (line 82) while an earlier invocation is still
\* running; the invocations are numbered in the order they start and each
\* runs once. The overlap is short against the time a copy takes: no copy
\* completes during it
ConcurrentStart(i) ==
    /\ \A j \in Invs : j < i => pc[j] # "idle"
    /\ pc[i] = "idle"
    /\ CopierListSource(i)

ConcurrentInit ==
    /\ InitCopier
    /\ CopierIdle
    /\ SharerIdle

ConcurrentNext ==
    \/ \E i \in Invs : ConcurrentStart(i)
    \/ \E i \in Invs : CopierListDest(i)
    \/ \E i \in Invs, id \in Ids, ok \in BOOLEAN : CopierStep(i, id, ok)
    \/ \E i \in Invs : CopierFinish(i)

ConcurrentSpec == ConcurrentInit /\ [][ConcurrentNext]_vars

\* ---------------------------------------------------------------- claims

Visited(i) == shared_snapshots[i] \ todo[i]
CallsFor(i, id) == {c \in calls[i] : c[2] = id}
Sent(i, op, id) == \E res \in {"ok", "fail"} : <<op, id, res>> \in calls[i]

\* C1: when the loop of an invocation is over, the pending-work error is
\* raised exactly when the pending counter is above zero, its message
\* carries the counter, and with the counter at zero the invocation returns
\* normally; in the Copier and in the Sharer
C1_PendingErrorIffCounterPositive ==
    /\ \A i \in Invs : pc[i] = "done" =>
          /\ (outcome[i] = "pending") <=> (pending_copies[i] > 0)
          /\ outcome[i] = "pending" => raised[i] = pending_copies[i]
          /\ pending_copies[i] = 0 => outcome[i] = "ok"
    /\ spc = "done" =>
          /\ (soutcome = "pending") <=> (pending_snapshots > 0)
          /\ soutcome = "pending" => sraised = pending_snapshots
          /\ pending_snapshots = 0 => soutcome = "ok"

C1_Witness ==
    pc[1] = "done" /\ pending_copies[1] = 1 /\ outcome[1] = "pending" /\ raised[1] = 1

\* C3: an invocation sends the delete call for an identifier only if its
\* own listings hold the identifier in both regions with the destination
\* copy 'available' and the regions differ; and the destination copy is
\* there and available in the service whenever the delete has been sent
C3_DeleteOnlyWhenDestAvailable ==
    \A i \in Invs, id \in Ids :
        Sent(i, "delete", id) =>
            /\ own_snapshots[i][id] # Absent
            /\ own_dest_snapshots[i][id] = "available"
            /\ REGION # DESTINATION_REGION
            /\ own[DESTINATION_REGION][id] = "available"

C3_Witness ==
    /\ <<"delete", "s1", "ok">> \in calls[1]
    /\ own[REGION]["s1"] = Absent
    /\ own[DESTINATION_REGION]["s1"] = "available"

\* C4: no failure of a collaborator call made for one snapshot leaves the
\* invocation: every invocation runs its loop to the end, in both engines
C4_FailureIsolation ==
    /\ \A i \in Invs : pc[i] # "aborted" /\ outcome[i] # "error"
    /\ spc # "aborted" /\ soutcome # "error"

\* C5: visiting a shared identifier that is owned in neither region sends
\* copy-local only if its timestamp is known and its age in days is below
\* RETENTION_DAYS; with the timestamp unknown or the age at or above
\* RETENTION_DAYS the visit sends no call, changes no snapshot and leaves
\* the pending counter as it was
C5_RetentionGate ==
    [][\A i \in Invs, id \in Ids :
          ( /\ pc[i] = "loop"
            /\ id \in todo[i]
            /\ id \notin todo'[i]
            /\ own_snapshots[i][id] = Absent
            /\ own_dest_snapshots[i][id] = Absent )
          =>
          LET fresh == created[id] # NoTimestamp /\ now - created[id] < RETENTION_DAYS
          IN  /\ Sent(i, "copy_local", id)' => fresh
              /\ ~fresh => /\ calls'[i] = calls[i]
                           /\ pending_copies'[i] = pending_copies[i]
                           /\ own' = own
      ]_vars

C5_Witness ==
    /\ pc[1] = "done"
    /\ <<"Older than", "s1">> \in msgs[1]
    /\ <<"No valid timestamp", "s2">> \in msgs[1]
    /\ calls[1] = {}
    /\ pending_copies[1] = 0

\* C6: for a snapshot whose tags the Sharer has read, the share call is sent
\* exactly when the shareAndCopy tag is YES in any letter case and the
\* listed status is 'available' in any letter case; a snapshot without the
\* marker is never shared, in any invocation
C6_ShareOnlyMarked ==
    /\ \A id \in tagsRead :
          (\E res \in {"ok", "fail"} : <<id, res>> \in scalls)
          <=> (snapTag[id] \in {"YES", "yes"} /\ filtered[id] \in {"available", "Available"})
    /\ \A id \in Ids :
          snapTag[id] \notin {"YES", "yes"} =>
              /\ id \notin restoreAttr
              /\ \A res \in {"ok", "fail"} : <<id, res>> \notin scalls

C6_Witness ==
    /\ spc = "done"
    /\ snapTag["s1"] = "yes" /\ filtered["s1"] = "Available"
    /\ <<"s1", "ok">> \in scalls /\ "s1" \in restoreAttr
    /\ snapTag["s2"] = "NO" /\ filtered["s2"] = "available"
    /\ "s2" \in tagsRead /\ "s2" \notin restoreAttr

\* the executor failures of a Copier invocation: the mutation calls that
\* failed and the exceptions caught around a call
ExecutorFailures(i) ==
    {id \in Ids : \/ \E op \in {"copy_local", "copy_remote", "delete"} :
                        <<op, id, "fail">> \in calls[i]
                  \/ <<"exception", id>> \in msgs[i]}

\* the visited remote-copy candidates whose source copy was not available
NotAvailableCandidates(i) ==
    {id \in Visited(i) : /\ own_snapshots[i][id] \notin {Absent, "available"}
                         /\ own_dest_snapshots[i][id] = Absent
                         /\ REGION # DESTINATION_REGION}

ShareFailures == {id \in Ids : <<id, "fail">> \in scalls}

CopyingShares ==
    {id \in tagsRead : snapTag[id] \in {"YES", "yes"} /\ filtered[id] = "copying"}

\* C7: the pending counter equals the number of executor failures plus the
\* number of 'copying' shares plus the number of not-available remote-copy
\* candidates, and an invocation without any of these does not raise the
\* pending error
C7_PendingTotalIsExact ==
    /\ \A i \in Invs :
          /\ pending_copies[i] =
                Cardinality(ExecutorFailures(i)) + Cardinality(NotAvailableCandidates(i))
          /\ (pc[i] = "done" /\ ExecutorFailures(i) = {} /\ NotAvailableCandidates(i) = {})
                => outcome[i] # "pending"
    /\ pending_snapshots = Cardinality(ShareFailures) + Cardinality(CopyingShares)
    /\ (spc = "done" /\ ShareFailures = {} /\ CopyingShares = {}) => soutcome # "pending"

\* C8: for every identifier and every listing the three guards of the
\* decision exclude one another, so the chain takes the branch of the one
\* guard that holds or none; an invocation sends at most one call for an
\* identifier and an identifier adds at most one to the pending counter
C8_MutualExclusion ==
    \A i \in Invs, id \in Ids :
        pc[i] \in {"loop", "done", "aborted"} =>
        LET ownL == own_snapshots[i]
            destL == own_dest_snapshots[i]
            g1 == IsCopyLocalCandidate(id, ownL, destL)
            g2 == IsCopyRemoteCandidate(id, ownL, destL)
            g3 == IsDeleteLocalCandidate(id, ownL, destL)
        IN  /\ ~(g1 /\ g2) /\ ~(g1 /\ g3) /\ ~(g2 /\ g3)
            /\ (Branch(id, ownL, destL) = "copy_local") <=> g1
            /\ (Branch(id, ownL, destL) = "copy_remote") <=> g2
            /\ (Branch(id, ownL, destL) = "delete") <=> g3
            /\ (Branch(id, ownL, destL) = NoOp) <=> ~(g1 \/ g2 \/ g3)
            /\ Cardinality(CallsFor(i, id)) <= 1
            /\ pendingFor[i][id] <= 1
            /\ (id \notin Visited(i)) => (CallsFor(i, id) = {} /\ pendingFor[i][id] = 0)
            /\ pending_copies[i] = Cardinality({x \in Ids : pendingFor[i][x] = 1})

C8_Witness ==
    /\ pc[1] = "done"
    /\ <<"copy_remote", "s1", "ok">> \in calls[1]
    /\ <<"delete", "s2", "ok">> \in calls[1]
    /\ Cardinality(calls[1]) = 2

\* C9: once a Copier invocation has returned normally, the next invocation
\* sends no copy and no delete
C9_NormalReturnMeansConverged ==
    \A i \in Invs :
        (outcome[i] = "ok" /\ pc[i] \in {"listed", "loop"}) => calls[i] = {}

\* C10 as stated: with the regions different, an invocation whose loop is
\* over has sent the cross-region copy for every identifier its listings
\* show owned and available in REGION and missing in DESTINATION_REGION, and
\* for every such identifier in another status it has sent no call and
\* counted one
C10_CopyRemoteForEveryOwned ==
    \A i \in Invs, id \in Ids :
        ( /\ pc[i] = "done"
          /\ REGION # DESTINATION_REGION
          /\ own_snapshots[i][id] # Absent
          /\ own_dest_snapshots[i][id] = Absent )
        => IF own_snapshots[i][id] = "available"
           THEN Sent(i, "copy_remote", id)
           ELSE CallsFor(i, id) = {} /\ pendingFor[i][id] = 1

\* C10 amended: the same for every identifier of the invocation's shared
\* listing that the loop has visited
C10_CopyRemoteDecision ==
    \A i \in Invs : \A id \in Visited(i) :
        ( /\ REGION # DESTINATION_REGION
          /\ own_snapshots[i][id] # Absent
          /\ own_dest_snapshots[i][id] = Absent )
        => IF own_snapshots[i][id] = "available"
           THEN Sent(i, "copy_remote", id) /\ Cardinality(CallsFor(i, id)) = 1
           ELSE CallsFor(i, id) = {} /\ pendingFor[i][id] = 1

C10_Witness ==
    /\ pc[1] = "done"
    /\ REGION # DESTINATION_REGION
    /\ own_snapshots[1]["s1"] = "available" /\ own_dest_snapshots[1]["s1"] = Absent
    /\ <<"copy_remote", "s1", "ok">> \in calls[1]
    /\ own_snapshots[1]["s2"] = "copying" /\ own_dest_snapshots[1]["s2"] = Absent
    /\ CallsFor(1, "s2") = {} /\ pendingFor[1]["s2"] = 1

\* an identifier the Copier has to bring to the destination region: shared,
\* dated, young enough on every day of the clock, owned in neither region
Eligible(id) ==
    /\ lambdaFn = Copier
    /\ REGION # DESTINATION_REGION
    /\ id \in shared
    /\ created[id] # NoTimestamp
    /\ MaxNow - created[id] < RETENTION_DAYS
    /\ own[REGION][id] = Absent
    /\ own[DESTINATION_REGION][id] = Absent

Landed(id) ==
    own[DESTINATION_REGION][id] = "available" /\ own[REGION][id] = Absent

\* C2: with the regions different, every eligible identifier ends up with
\* an available copy in the destination region and none in the source region
C2_CopierLiveness == \A id \in Ids : Eligible(id) ~> Landed(id)

\* C11: of the snapshots whose tags the Sharer has read, a marked one in
\* status 'copying' is not shared and counts one; a marked one in another
\* status than 'available' and 'copying', and an unmarked one, is not shared
\* and counts nothing; a marked 'available' one counts one exactly when its
\* share call failed
C11_SharerPendingAccounting ==
    \A id \in tagsRead :
        LET marked == snapTag[id] \in {"YES", "yes"}
            status == filtered[id]
            sent == \E res \in {"ok", "fail"} : <<id, res>> \in scalls
        IN  /\ (marked /\ status = "copying") => (~sent /\ spendingFor[id] = 1)
            /\ (marked /\ status = "creating") => (~sent /\ spendingFor[id] = 0)
            /\ ~marked => (~sent /\ spendingFor[id] = 0)
            /\ (marked /\ status \in {"available", "Available"}) =>
                  /\ sent
                  /\ (spendingFor[id] = 1) <=> (<<id, "fail">> \in scalls)
                  /\ (spendingFor[id] = 0) <=> (<<id, "ok">> \in scalls)

C11_Witness ==
    /\ spc = "done"
    /\ snapTag["s1"] = "YES" /\ filtered["s1"] = "copying" /\ spendingFor["s1"] = 1
    /\ snapTag["s2"] = "YES" /\ filtered["s2"] = "creating" /\ spendingFor["s2"] = 0
    /\ scalls = {}
    /\ pending_snapshots = 1

\* a visited identifier that the listings show owned in neither region, that
\* is dated and young enough on every day of the clock, and whose copy-local
\* call did not fail
LocalCopyNotFailed(i, id) ==
    /\ id \in Visited(i)
    /\ own_snapshots[i][id] = Absent
    /\ own_dest_snapshots[i][id] = Absent
    /\ created[id] # NoTimestamp
    /\ MaxNow - created[id] < RETENTION_DAYS
    /\ <<"copy_local", id, "fail">> \notin calls[i]

C13_SameRegionOnlyCopiesLocally ==
    REGION = DESTINATION_REGION =>
        \A i \in Invs : \A c \in calls[i] :
            /\ c[1] = "copy_local"
            /\ c[2] \in shared_snapshots[i]
            /\ own_snapshots[i][c[2]] = Absent
            /\ own_dest_snapshots[i][c[2]] = Absent

\* with the regions equal, an invocation that found s2 owned and available
\* has ended having sent one call, the local copy of s1
C13_Witness ==
    /\ REGION = DESTINATION_REGION
    /\ pc[1] = "done"
    /\ shared_snapshots[1] = {"s1", "s2"}
    /\ own_snapshots[1]["s2"] = "available"
    /\ calls[1] = {<<"copy_local", "s1", "ok">>}

\* C14: once an identifier has an available copy in DESTINATION_REGION and
\* none in REGION, it stays so: no step sends a call for it, none adds to the
\* pending count for it, and its copy in REGION is not made again
C14_LandedIsTerminal ==
    [][\A id \in Ids :
          Landed(id) =>
              /\ Landed(id)'
              /\ CallsFor(1, id)' \subseteq CallsFor(1, id)
              /\ pendingFor'[1][id] <= pendingFor[1][id]]_vars

\* an invocation that listed a shared, dated, young s1 as landed has ended
\* without a call and without a count for it
C14_Witness ==
    /\ Landed("s1")
    /\ pc[1] = "done"
    /\ "s1" \in Visited(1)
    /\ created["s1"] # NoTimestamp
    /\ MaxNow - created["s1"] < RETENTION_DAYS
    /\ own_snapshots[1]["s1"] = Absent
    /\ own_dest_snapshots[1]["s1"] = "available"
    /\ CallsFor(1, "s1") = {}
    /\ pendingFor[1]["s1"] = 0

\* how far an identifier has come, read from the snapshots there are:
\* 0 owned nowhere, 1 owned in REGION only, 2 owned in both regions,
\* 3 owned in DESTINATION_REGION only
Rank(id) ==
    IF own[REGION][id] = Absent
    THEN IF own[DESTINATION_REGION][id] = Absent THEN 0 ELSE 3
    ELSE IF REGION = DESTINATION_REGION \/ own[DESTINATION_REGION][id] = Absent
         THEN 1 ELSE 2

\* the calls a step adds for an identifier
NewCalls(id) == CallsFor(1, id)' \ CallsFor(1, id)

DictatedCall(i, id) ==
    LET b == Branch(id, own_snapshots[i], own_dest_snapshots[i]) IN
    IF b = "copy_remote" /\ RemoteCopyReady(own_snapshots[i][id]) THEN "copy_remote"
    ELSE IF b = "delete" THEN "delete"
    ELSE NoOp

\* C16: the calls of an invocation depend on its listings only, not on the
\* order of the identifiers: when the invocation has ended, every identifier
\* of its shared listing for which the listings dictate a call has had that
\* call sent, as it has in the order that visits it first
C16_CallsIndependentOfOrder ==
    \A i \in Invs : \A id \in shared_snapshots[i] :
        (pc[i] \in {"done", "aborted"} /\ DictatedCall(i, id) # NoOp)
            => Sent(i, DictatedCall(i, id), id)

\* the listings of invocation i dictate call op for an identifier it has
\* visited
Dictates(i, op, id) ==
    /\ id \in Visited(i)
    /\ REGION # DESTINATION_REGION
    /\ IF op = "copy_remote"
       THEN own_snapshots[i][id] = "available" /\ own_dest_snapshots[i][id] = Absent
       ELSE own_snapshots[i][id] # Absent /\ own_dest_snapshots[i][id] = "available"

\* C17: nothing makes one of two overlapping invocations hold back for the
\* other: whenever the listings of both dictate the same cross-region copy
\* or the same delete for an identifier both have visited, both have sent
\* that call, and the service has carried out at most one of the two
C17_BothAttemptSameTransition ==
    \A id \in Ids : \A op \in {"copy_remote", "delete"} :
        (Dictates(1, op, id) /\ Dictates(2, op, id)) =>
            /\ Sent(1, op, id)
            /\ Sent(2, op, id)
            /\ ~(<<op, id, "ok">> \in calls[1] /\ <<op, id, "ok">> \in calls[2])

\* both invocations listed s1 available in both regions and s2 available in
\* REGION only before either had sent a call; both have sent the copy of s2,
\* and both have sent the delete of s1, the later one in vain
C17_Witness ==
    /\ REGION # DESTINATION_REGION
    /\ \A i \in Invs :
          /\ own_snapshots[i]["s1"] = "available"
          /\ own_dest_snapshots[i]["s1"] = "available"
          /\ own_snapshots[i]["s2"] = "available"
          /\ own_dest_snapshots[i]["s2"] = Absent
          /\ Sent(i, "copy_remote", "s2")
    /\ <<"delete", "s1", "ok">> \in calls[1]
    /\ <<"delete", "s1", "fail">> \in calls[2]
    /\ pc[2] = "aborted"

\* the snapshots of the Sharer's listing that carry the share marker
MarkedListed == {id \in Keys(filtered) : search_tag_share(snapTag[id])}

\* C18 as stated: after a normal return of the Sharer every listed snapshot
\* that carries the marker has had a successful share call
C18_NormalReturnSharedAllMarked ==
    (spc = "done" /\ soutcome = "ok") =>
        \A id \in MarkedListed : <<id, "ok">> \in scalls

\* C18 amended: after a normal return of the Sharer no listed snapshot that
\* carries the marker is in status 'copying', and every one in status
\* 'available' has had a successful share call; a marked snapshot in another
\* status has had no call
C18_NormalReturnSharedAllReady ==
    (spc = "done" /\ soutcome = "ok") =>
        \A id \in MarkedListed :
            /\ Lower(filtered[id]) # "copying"
            /\ Lower(filtered[id]) = "available" <=> <<id, "ok">> \in scalls
            /\ <<id, "fail">> \notin scalls

\* a normal return with a marked available snapshot shared and a marked
\* snapshot in status 'creating' left alone
C18_Witness ==
    /\ spc = "done"
    /\ soutcome = "ok"
    /\ MarkedListed = {"s1", "s2"}
    /\ filtered["s1"] = "Available"
    /\ filtered["s2"] = "creating"
    /\ scalls = {<<"s1", "ok">>}

\* C19: every call of an invocation is for an identifier of its shared
\* listing; a step changes an owned snapshot whose identifier is not in the
\* shared listing in no way but the service completing its copy; a snapshot
\* disappears only from REGION, only with the regions different, and only by
\* the invocation's successful delete of it; no snapshot of
\* DESTINATION_REGION disappears
C19_CopierFrame ==
    [][\A id \in Ids :
          /\ CallsFor(1, id)' # {} => id \in shared_snapshots[1]'
          /\ \A r \in Regions :
                /\ (id \notin shared_snapshots[1] /\ own'[r][id] # own[r][id]) =>
                      (own[r][id] = "copying" /\ own'[r][id] = "available")
                /\ (own[r][id] # Absent /\ own'[r][id] = Absent) =>
                      /\ r = REGION
                      /\ REGION # DESTINATION_REGION
                      /\ <<"delete", id, "ok">> \in NewCalls(id)
          /\ own[DESTINATION_REGION][id] # Absent =>
                own'[DESTINATION_REGION][id] # Absent]_vars

\* an invocation has deleted the local copy of the shared s1 and ended; s2,
\* available in both regions but not shared, is as it was
C19_Witness ==
    /\ REGION # DESTINATION_REGION
    /\ pc[1] = "done"
    /\ shared_snapshots[1] = {"s1"}
    /\ calls[1] = {<<"delete", "s1", "ok">>}
    /\ own[REGION]["s1"] = Absent
    /\ own[DESTINATION_REGION]["s1"] = "available"
    /\ own[REGION]["s2"] = "available"
    /\ own[DESTINATION_REGION]["s2"] = "available"

====
